---- MODULE Spec2Model ----
(***************************************************************************)
(* Request handling in the bookshop, e-commerce and simple-full-stack      *)
(* tenants.                                                                *)
(*                                                                         *)
(* One state machine covers both services: Init picks the service the      *)
(* process runs (tenants/bookshop/main.py or tenants/e-commerce/main.py),  *)
(* and every request slot then handles one request of that service.  The   *)
(* handlers are synchronous FastAPI endpoints, so each request runs in its *)
(* own worker thread with its own copy of the tracing context; the steps   *)
(* of different requests interleave freely.                                *)
(*                                                                         *)
(* The OpenTelemetry calls are modelled by what they do:                   *)
(*   - FastAPIInstrumentor.instrument_app opens one server span per        *)
(*     request before the endpoint runs and ends it after the response;    *)
(*     the per-message receive/send spans of the ASGI instrumentation are  *)
(*     not modelled;                                                       *)
(*   - `with tracer.start_as_current_span(name)` starts a span whose       *)
(*     parent is the current span of the request's context, makes it       *)
(*     current, and on exit ends it and restores the previous current      *)
(*     span; when the block is left by an exception, the exception is      *)
(*     first recorded on the span, then the status is set to ERROR, then   *)
(*     the span is ended and the exception propagates;                     *)
(*   - a span's status stays UNSET unless set_status is called;            *)
(*   - an ended span is handed to the BatchSpanProcessor.                  *)
(* Money is in cents.  Logging calls are not modelled.                     *)
(*                                                                         *)
(* The simple-full-stack backend (sfs-backend/main.py) is a second machine *)
(* over the same request slots: InitItems and NextItems model its handlers *)
(* on the module-level list ITEMS.  It has no tracing.                     *)
(***************************************************************************)
EXTENDS Integers, Sequences, FiniteSets, TLC

\* Number of concurrently handled requests.
NumReqs == 2
\* The clock runs from 0 to MaxTime.
MaxTime == 2
\* Capacity of the exporter's pending buffer.
MaxQueue == 6
\* Number of retries after a failed transmission.
RetryBudget == 2

VARIABLES
    service,    \* which tenant this process is
    pc,         \* pc[r]: position of request r
    req,        \* req[r]: handler and inputs of request r
    loc,        \* loc[r]: local variables of the handler of request r
    ctx,        \* ctx[r]: stack of current spans of request r's context
    spans,      \* spans[r]: the spans started while handling request r
    response,   \* response[r]: what the client of request r receives
    stock,      \* BOOKS_DB[id]["stock"]
    now,        \* the clock
    pending,    \* number of ended spans in the exporter's buffer
    inflight,   \* size of the batch being transmitted
    retries,    \* retries used for the batch in flight
    dropped,    \* the exporter's drop counter
    exported,   \* number of spans delivered to the collector
    failures,   \* number of export failure events logged
    ITEMS,      \* the list object the global ITEMS is bound to
    lists       \* lists[o]: the items held by list object o

vars == <<service, pc, req, loc, ctx, spans, response, stock, now,
          pending, inflight, retries, dropped, exported, failures,
          ITEMS, lists>>

exporterVars == <<pending, inflight, retries, dropped, exported, failures>>

Reqs == 1..NumReqs

Services == {"bookshop", "e-commerce"}

BookIds == 1..5

InitialStock == [b \in BookIds |-> CASE b = 1 -> 45 [] b = 2 -> 32 [] b = 3 -> 28
                                      [] b = 4 -> 52 [] b = 5 -> 19]

Price == [b \in BookIds |-> CASE b = 1 -> 1299 [] b = 2 -> 1499 [] b = 3 -> 1350
                               [] b = 4 -> 1199 [] b = 5 -> 1250]

Author == [b \in BookIds |-> CASE b = 1 -> "fitzgerald" [] b = 2 -> "orwell"
                                [] b = 3 -> "lee" [] b = 4 -> "austen"
                                [] b = 5 -> "salinger"]

\* Inputs of the requests.
BookIdInputs == {2, 5, 999}
QuantityInputs == {10, 20}
FilterInputs == {[author |-> "", min_price |-> 0],
                 [author |-> "orwell", min_price |-> 1300]}
OrderIds == {10000, 99999}
DelayInputs == {100, 500}

EcommerceHandlers == {"ecommerce_root", "do_work"}

NoSpan == <<0, 0>>
NoReq == [handler |-> "none", book_id |-> 0, quantity |-> 0,
          author |-> "", min_price |-> 0]
NoLoc == [cache_hit |-> FALSE, book |-> 0, books |-> {}, total |-> 0, tmp |-> 0,
          order_id |-> 0, total_stock |-> 0, popular |-> <<>>, i |-> 0,
          exc |-> 0, exc_detail |-> ""]
NoResponse == [status |-> 0]

----------------------------------------------------------------------------
(* Spans *)

NoAttrs == [k \in {} |-> 0]

SetAttr(a, k, v) == [x \in DOMAIN a \cup {k} |-> IF x = k THEN v ELSE a[x]]

\* The current span of request r's context: the parent of the next span.  A
\* context shared by all requests would return another request's span.
CurrentSpan_shared(r) ==
    IF \E o \in DOMAIN ctx : o # r /\ ctx[o] # <<>>
    THEN LET o == CHOOSE o \in DOMAIN ctx : o # r /\ ctx[o] # <<>>
         IN  ctx[o][Len(ctx[o])]
    ELSE IF ctx[r] = <<>> THEN NoSpan ELSE ctx[r][Len(ctx[r])]

CurrentSpan(r) == IF ctx[r] = <<>> THEN NoSpan ELSE ctx[r][Len(ctx[r])]

\* The span of the innermost `with` block request r is in.  Leaving the
\* outermost block first would end the spans in the wrong order.
BlockSpan_outer(r) == ctx[r][1]

BlockSpan(r) == ctx[r][Len(ctx[r])]

SpanOf(id) == spans[id[1]][id[2]]

NewSpan(r, name, attrs) ==
    LET parent == CurrentSpan(r)
        id == <<r, Len(spans[r]) + 1>>
    IN  [name |-> name,
         parent |-> parent,
         trace |-> IF parent = NoSpan THEN id ELSE SpanOf(parent).trace,
         start |-> now, end |-> -1,
         status |-> "UNSET", detail |-> "",
         attrs |-> attrs, ended |-> 0]

\* start_as_current_span: the new span becomes the current span of r's context.
StartSpan(r, name, attrs) ==
    /\ spans' = [spans EXCEPT ![r] = Append(@, NewSpan(r, name, attrs))]
    /\ ctx' = [ctx EXCEPT ![r] = Append(@, <<r, Len(spans[r]) + 1>>)]
    /\ UNCHANGED exporterVars

\* BatchSpanProcessor.on_end: the span joins the pending buffer; a full buffer
\* loses its oldest entry and counts the loss.
Enqueue ==
    /\ pending' = IF pending < MaxQueue THEN pending + 1 ELSE pending
    /\ dropped' = IF pending < MaxQueue THEN dropped ELSE dropped + 1
    /\ UNCHANGED <<inflight, retries, exported, failures>>

\* Exit of a `with` block: the block's span, after a last update `rec` of its
\* fields, is ended, handed to the exporter, and the previous span is current.
EndSpan(r, rec) ==
    LET id == BlockSpan(r)
    IN  /\ spans' = [spans EXCEPT ![id[1]][id[2]] =
                        [rec EXCEPT !.end = now, !.ended = @ + 1]]
        /\ ctx' = [ctx EXCEPT ![r] = SubSeq(@, 1, Len(@) - 1)]
        /\ Enqueue

\* An update of the current span that leaves it open.
UpdateSpan(r, rec) ==
    LET id == BlockSpan(r)
    IN  /\ spans' = [spans EXCEPT ![id[1]][id[2]] = rec]
        /\ UNCHANGED <<ctx, exporterVars>>

Cur(r) == SpanOf(BlockSpan(r))

WithAttr(rec, k, v) == [rec EXCEPT !.attrs = SetAttr(@, k, v)]

Goto(r, label) == pc' = [pc EXCEPT ![r] = label]

SetLoc(r, l) == loc' = [loc EXCEPT ![r] = l]

----------------------------------------------------------------------------
(* The server: a request arrives, is routed, and is answered *)

Init ==
    /\ service \in Services
    /\ pc = [r \in Reqs |-> "idle"]
    /\ req = [r \in Reqs |-> NoReq]
    /\ loc = [r \in Reqs |-> NoLoc]
    /\ ctx = [r \in Reqs |-> <<>>]
    /\ spans = [r \in Reqs |-> <<>>]
    /\ response = [r \in Reqs |-> NoResponse]
    /\ stock = InitialStock
    /\ now = 0
    /\ pending = 0
    /\ inflight = 0
    /\ retries = 0
    /\ dropped = 0
    /\ exported = 0
    /\ failures = 0
    /\ ITEMS = 0
    /\ lists = [o \in {0} \cup Reqs |-> <<>>]

RequestInputs ==
    IF service = "bookshop"
    THEN {[NoReq EXCEPT !.handler = h] : h \in {"root", "health", "get_stats"}}
         \cup {[NoReq EXCEPT !.handler = "list_books", !.author = f.author,
                             !.min_price = f.min_price] : f \in FilterInputs}
         \cup {[NoReq EXCEPT !.handler = "get_book", !.book_id = b] :
                  b \in BookIdInputs \ {5}}
         \cup {[NoReq EXCEPT !.handler = "create_order", !.book_id = b,
                             !.quantity = q] :
                  b \in BookIdInputs \ {2}, q \in QuantityInputs}
    ELSE {[NoReq EXCEPT !.handler = h] : h \in EcommerceHandlers}

\* The instrumented application receives a request: the server span is opened
\* and the endpoint is called in a worker thread with a copy of the context.
Arrive(r) ==
    /\ pc[r] = "idle"
    /\ \E q \in RequestInputs :
          /\ req' = [req EXCEPT ![r] = q]
          /\ StartSpan(r, "server", SetAttr(NoAttrs, "http.route", q.handler))
    /\ Goto(r, "call")
    /\ UNCHANGED <<ITEMS, lists, service, loc, response, stock, now>>

\* The response leaves the server: the server span records the status code and
\* is ended.
Respond(r) ==
    /\ pc[r] = "respond"
    /\ EndSpan(r, WithAttr(Cur(r), "http.status_code", response[r].status))
    /\ Goto(r, "done")
    /\ UNCHANGED <<ITEMS, lists, service, req, loc, response, stock, now>>

\* A step of a handler that touches only its spans and its position.
SpanStep == UNCHANGED <<ITEMS, lists, service, req, loc, response, stock, now>>

\* A step of a handler that also assigns local variables.
LocalStep == UNCHANGED <<ITEMS, lists, service, req, response, stock, now>>

\* The handler returns `body`: FastAPI answers 200.
Return(r, body) ==
    /\ response' = [response EXCEPT ![r] = [status |-> 200, body |-> body]]
    /\ Goto(r, "respond")
    /\ UNCHANGED <<ITEMS, lists, service, req, loc, stock, now>>

----------------------------------------------------------------------------
(* Exceptions leaving `with` blocks *)

\* raise HTTPException(status_code, detail) inside the current span's block,
\* after set_attribute("error", True).
RaiseHTTP(r, code, detail) ==
    /\ UpdateSpan(r, WithAttr(Cur(r), "error", TRUE))
    /\ SetLoc(r, [loc[r] EXCEPT !.exc = code, !.exc_detail = detail])
    /\ Goto(r, "exc_record")
    /\ LocalStep

\* With record_exception off, nothing is recorded on the span.
ExcRecord_skip(r) ==
    /\ pc[r] = "exc_record"
    /\ Goto(r, "exc_status")
    /\ UNCHANGED <<spans, ctx, exporterVars>>
    /\ SpanStep

\* The block of the current span is left by the exception: it is recorded ...
ExcRecord(r) ==
    /\ pc[r] = "exc_record"
    /\ UpdateSpan(r, [Cur(r) EXCEPT !.detail = loc[r].exc_detail])
    /\ Goto(r, "exc_status")
    /\ SpanStep

\* With set_status_on_exception off, the status is left as it is.
ExcStatus_skip(r) ==
    /\ pc[r] = "exc_status"
    /\ Goto(r, "exc_end")
    /\ UNCHANGED <<spans, ctx, exporterVars>>
    /\ SpanStep

\* ... the status is set to ERROR ...
ExcStatus(r) ==
    /\ pc[r] = "exc_status"
    /\ UpdateSpan(r, [Cur(r) EXCEPT !.status = "ERROR"])
    /\ Goto(r, "exc_end")
    /\ SpanStep

\* A block without guaranteed release: the exception leaves it and its span
\* is never ended.
ExcEnd_leak(r) ==
    /\ pc[r] = "exc_end"
    /\ ctx' = [ctx EXCEPT ![r] = SubSeq(@, 1, Len(@) - 1)]
    /\ IF Len(ctx[r]) > 2
       THEN /\ Goto(r, "exc_record")
            /\ UNCHANGED response
       ELSE /\ Goto(r, "respond")
            /\ response' = [response EXCEPT ![r] =
                  [status |-> loc[r].exc, body |-> loc[r].exc_detail]]
    /\ UNCHANGED <<ITEMS, lists, service, req, loc, stock, now, spans, exporterVars>>

\* ... and the span is ended; the exception reaches the enclosing block, or,
\* out of the endpoint, FastAPI's handler, which turns it into the response.
ExcEnd(r) ==
    /\ pc[r] = "exc_end"
    /\ EndSpan(r, Cur(r))
    /\ IF Len(ctx[r]) > 2
       THEN /\ Goto(r, "exc_record")
            /\ UNCHANGED response
       ELSE /\ Goto(r, "respond")
            /\ response' = [response EXCEPT ![r] =
                  [status |-> loc[r].exc, body |-> loc[r].exc_detail]]
    /\ UNCHANGED <<ITEMS, lists, service, req, loc, stock, now>>

----------------------------------------------------------------------------
(* bookshop: root, health *)

At(r, h, label) == req[r].handler = h /\ pc[r] = label

root_start(r) ==
    /\ At(r, "root", "call")
    /\ StartSpan(r, "root_handler", SetAttr(NoAttrs, "endpoint", "/"))
    /\ Goto(r, "root_return")
    /\ SpanStep

root_return(r) ==
    /\ At(r, "root", "root_return")
    /\ EndSpan(r, Cur(r))
    /\ Return(r, "ok")

health_start(r) ==
    /\ At(r, "health", "call")
    /\ StartSpan(r, "health_check", SetAttr(NoAttrs, "health_status", "healthy"))
    /\ Goto(r, "health_return")
    /\ SpanStep

health_return(r) ==
    /\ At(r, "health", "health_return")
    /\ EndSpan(r, Cur(r))
    /\ Return(r, "healthy")

----------------------------------------------------------------------------
(* bookshop: list_books *)

\* The books the query returns under the request's filters.
FilterBooks(author, min_price) ==
    {b \in BookIds : /\ (author # "" => Author[b] = author)
                     /\ (min_price # 0 => Price[b] >= min_price)}

list_books_start(r) ==
    /\ At(r, "list_books", "call")
    /\ StartSpan(r, "list_books",
          SetAttr(SetAttr(NoAttrs, "filter.author",
                          IF req[r].author = "" THEN "none" ELSE req[r].author),
                  "filter.min_price", req[r].min_price))
    /\ Goto(r, "lb_cache")
    /\ SpanStep

list_books_cache_start(r) ==
    /\ At(r, "list_books", "lb_cache")
    /\ StartSpan(r, "cache_lookup", NoAttrs)
    /\ Goto(r, "lb_cache_check")
    /\ SpanStep

\* simulate_cache_check: a hit or a miss; the result goes to cache_hit.
simulate_cache_check(r, label) ==
    /\ \E hit \in BOOLEAN : SetLoc(r, [loc[r] EXCEPT !.cache_hit = hit])
    /\ Goto(r, label)
    /\ UNCHANGED <<spans, ctx, exporterVars>>
    /\ LocalStep

list_books_cache_check(r) ==
    /\ At(r, "list_books", "lb_cache_check")
    /\ simulate_cache_check(r, "lb_cache_end")

list_books_cache_end(r) ==
    /\ At(r, "list_books", "lb_cache_end")
    /\ EndSpan(r, Cur(r))
    /\ Goto(r, "lb_db")
    /\ SpanStep

list_books_db_start(r) ==
    /\ At(r, "list_books", "lb_db")
    /\ StartSpan(r, "database_query",
          SetAttr(SetAttr(NoAttrs, "query_type", "SELECT"), "table", "books"))
    /\ Goto(r, "lb_db_query")
    /\ SpanStep

list_books_db_query(r) ==
    /\ At(r, "list_books", "lb_db_query")
    /\ LET books == FilterBooks(req[r].author, req[r].min_price)
       IN  /\ SetLoc(r, [loc[r] EXCEPT !.books = books])
           /\ UpdateSpan(r, WithAttr(Cur(r), "result_count", Cardinality(books)))
    /\ Goto(r, "lb_db_end")
    /\ LocalStep

list_books_db_end(r) ==
    /\ At(r, "list_books", "lb_db_end")
    /\ EndSpan(r, Cur(r))
    /\ Goto(r, "lb_ser")
    /\ SpanStep

list_books_serialize_start(r) ==
    /\ At(r, "list_books", "lb_ser")
    /\ StartSpan(r, "serialize_response", NoAttrs)
    /\ Goto(r, "lb_ser_end")
    /\ SpanStep

list_books_serialize_end(r) ==
    /\ At(r, "list_books", "lb_ser_end")
    /\ EndSpan(r, Cur(r))
    /\ Goto(r, "lb_return")
    /\ SpanStep

list_books_return(r) ==
    /\ At(r, "list_books", "lb_return")
    /\ EndSpan(r, WithAttr(Cur(r), "books_returned", Cardinality(loc[r].books)))
    /\ Return(r, [books |-> loc[r].books, count |-> Cardinality(loc[r].books)])

----------------------------------------------------------------------------
(* bookshop: get_book *)

get_book_start(r) ==
    /\ At(r, "get_book", "call")
    /\ StartSpan(r, "get_book", SetAttr(NoAttrs, "book_id", req[r].book_id))
    /\ Goto(r, "gb_cache")
    /\ SpanStep

get_book_cache_start(r) ==
    /\ At(r, "get_book", "gb_cache")
    /\ StartSpan(r, "cache_lookup", NoAttrs)
    /\ Goto(r, "gb_cache_check")
    /\ SpanStep

get_book_cache_check(r) ==
    /\ At(r, "get_book", "gb_cache_check")
    /\ simulate_cache_check(r, "gb_cache_end")

get_book_cache_end(r) ==
    /\ At(r, "get_book", "gb_cache_end")
    /\ EndSpan(r, Cur(r))
    /\ Goto(r, "gb_db")
    /\ SpanStep

\* The query span without its book_id attribute.
get_book_db_start_noattr(r) ==
    /\ At(r, "get_book", "gb_db")
    /\ StartSpan(r, "database_query",
          SetAttr(SetAttr(NoAttrs, "query_type", "SELECT"), "table", "books"))
    /\ Goto(r, "gb_db_lookup")
    /\ SpanStep

get_book_db_start(r) ==
    /\ At(r, "get_book", "gb_db")
    /\ StartSpan(r, "database_query",
          SetAttr(SetAttr(SetAttr(NoAttrs, "query_type", "SELECT"),
                          "table", "books"), "book_id", req[r].book_id))
    /\ Goto(r, "gb_db_lookup")
    /\ SpanStep

get_book_db_lookup(r) ==
    /\ At(r, "get_book", "gb_db_lookup")
    /\ IF req[r].book_id \notin BookIds
       THEN RaiseHTTP(r, 404, "Book not found")
       ELSE /\ SetLoc(r, [loc[r] EXCEPT !.book = req[r].book_id])
            /\ Goto(r, "gb_db_end")
            /\ UNCHANGED <<spans, ctx, exporterVars>>
            /\ LocalStep

get_book_db_end(r) ==
    /\ At(r, "get_book", "gb_db_end")
    /\ EndSpan(r, Cur(r))
    /\ Goto(r, "gb_return")
    /\ SpanStep

get_book_return(r) ==
    /\ At(r, "get_book", "gb_return")
    /\ EndSpan(r, Cur(r))
    /\ Return(r, [book |-> loc[r].book])

----------------------------------------------------------------------------
(* bookshop: create_order *)

create_order_start(r) ==
    /\ At(r, "create_order", "call")
    /\ StartSpan(r, "create_order",
          SetAttr(SetAttr(SetAttr(NoAttrs, "book_id", req[r].book_id),
                          "quantity", req[r].quantity),
                  "customer_email", "customer"))
    /\ Goto(r, "co_validate")
    /\ SpanStep

validate_book_start(r) ==
    /\ At(r, "create_order", "co_validate")
    /\ StartSpan(r, "validate_book", NoAttrs)
    /\ Goto(r, "co_validate_check")
    /\ SpanStep

\* `book` becomes a reference to the catalog entry: later reads of
\* book["stock"] read the shared catalog.
validate_book_check(r) ==
    /\ At(r, "create_order", "co_validate_check")
    /\ IF req[r].book_id \notin BookIds
       THEN RaiseHTTP(r, 404, "Book not found")
       ELSE /\ SetLoc(r, [loc[r] EXCEPT !.book = req[r].book_id])
            /\ Goto(r, "co_validate_end")
            /\ UNCHANGED <<spans, ctx, exporterVars>>
            /\ LocalStep

validate_book_end(r) ==
    /\ At(r, "create_order", "co_validate_end")
    /\ EndSpan(r, Cur(r))
    /\ Goto(r, "co_inventory")
    /\ SpanStep

check_inventory_start(r) ==
    /\ At(r, "create_order", "co_inventory")
    /\ StartSpan(r, "check_inventory", NoAttrs)
    /\ Goto(r, "co_inventory_attrs")
    /\ SpanStep

check_inventory_attrs(r) ==
    /\ At(r, "create_order", "co_inventory_attrs")
    /\ UpdateSpan(r, WithAttr(WithAttr(Cur(r), "available_stock", stock[loc[r].book]),
                              "requested_quantity", req[r].quantity))
    /\ Goto(r, "co_inventory_check")
    /\ SpanStep

\* The `raise` of line 235 left out: the span is marked and the order goes on.
check_inventory_check_noraise(r) ==
    /\ At(r, "create_order", "co_inventory_check")
    /\ IF stock[loc[r].book] < req[r].quantity
       THEN UpdateSpan(r, WithAttr(Cur(r), "error", TRUE))
       ELSE UNCHANGED <<spans, ctx, exporterVars>>
    /\ Goto(r, "co_inventory_end")
    /\ SpanStep

check_inventory_check(r) ==
    /\ At(r, "create_order", "co_inventory_check")
    /\ IF stock[loc[r].book] < req[r].quantity
       THEN RaiseHTTP(r, 400, "Insufficient stock")
       ELSE /\ Goto(r, "co_inventory_end")
            /\ UNCHANGED <<spans, ctx, exporterVars>>
            /\ SpanStep

check_inventory_end(r) ==
    /\ At(r, "create_order", "co_inventory_end")
    /\ EndSpan(r, Cur(r))
    /\ Goto(r, "co_total")
    /\ SpanStep

calculate_total_start(r) ==
    /\ At(r, "create_order", "co_total")
    /\ LET total == Price[loc[r].book] * req[r].quantity
       IN  /\ SetLoc(r, [loc[r] EXCEPT !.total = total])
           /\ StartSpan(r, "calculate_total",
                 SetAttr(SetAttr(NoAttrs, "unit_price", Price[loc[r].book]),
                         "total_amount", total))
    /\ Goto(r, "co_total_end")
    /\ LocalStep

calculate_total_end(r) ==
    /\ At(r, "create_order", "co_total_end")
    /\ EndSpan(r, Cur(r))
    /\ Goto(r, "co_payment")
    /\ SpanStep

process_payment_start(r) ==
    /\ At(r, "create_order", "co_payment")
    /\ StartSpan(r, "process_payment",
          SetAttr(SetAttr(NoAttrs, "amount", loc[r].total),
                  "payment_method", "credit_card"))
    /\ Goto(r, "co_payment_end")
    /\ SpanStep

\* The payment delay (100 to 300 ms) passes before the block is left.
process_payment_end(r) ==
    /\ At(r, "create_order", "co_payment_end")
    /\ EndSpan(r, Cur(r))
    /\ Goto(r, "co_update")
    /\ SpanStep

update_inventory_start(r) ==
    /\ At(r, "create_order", "co_update")
    /\ StartSpan(r, "update_inventory", NoAttrs)
    /\ Goto(r, "co_update_load")
    /\ SpanStep

\* book["stock"] -= order.quantity is a load, a subtraction and a store.
update_inventory_load(r) ==
    /\ At(r, "create_order", "co_update_load")
    /\ SetLoc(r, [loc[r] EXCEPT !.tmp = stock[loc[r].book]])
    /\ Goto(r, "co_update_store")
    /\ UNCHANGED <<spans, ctx, exporterVars>>
    /\ LocalStep

update_inventory_store(r) ==
    /\ At(r, "create_order", "co_update_store")
    /\ stock' = [stock EXCEPT ![loc[r].book] = loc[r].tmp - req[r].quantity]
    /\ Goto(r, "co_update_attr")
    /\ UNCHANGED <<spans, ctx, exporterVars>>
    /\ UNCHANGED <<ITEMS, lists, service, req, loc, response, now>>

update_inventory_attr(r) ==
    /\ At(r, "create_order", "co_update_attr")
    /\ UpdateSpan(r, WithAttr(Cur(r), "new_stock", stock[loc[r].book]))
    /\ Goto(r, "co_update_end")
    /\ SpanStep

update_inventory_end(r) ==
    /\ At(r, "create_order", "co_update_end")
    /\ EndSpan(r, Cur(r))
    /\ Goto(r, "co_email")
    /\ SpanStep

send_confirmation_email_start(r) ==
    /\ At(r, "create_order", "co_email")
    /\ StartSpan(r, "send_confirmation_email",
          SetAttr(NoAttrs, "recipient", "customer"))
    /\ Goto(r, "co_email_end")
    /\ SpanStep

send_confirmation_email_end(r) ==
    /\ At(r, "create_order", "co_email_end")
    /\ EndSpan(r, Cur(r))
    /\ Goto(r, "co_order_id")
    /\ SpanStep

create_order_order_id(r) ==
    /\ At(r, "create_order", "co_order_id")
    /\ \E id \in OrderIds :
          /\ SetLoc(r, [loc[r] EXCEPT !.order_id = id])
          /\ UpdateSpan(r, WithAttr(Cur(r), "order_id", id))
    /\ Goto(r, "co_return")
    /\ LocalStep

create_order_return(r) ==
    /\ At(r, "create_order", "co_return")
    /\ EndSpan(r, Cur(r))
    /\ Return(r, [order_id |-> loc[r].order_id, book |-> loc[r].book,
                  quantity |-> req[r].quantity, total |-> loc[r].total,
                  status |-> "confirmed"])

----------------------------------------------------------------------------
(* bookshop: get_stats *)

RECURSIVE SumOver(_, _)
SumOver(f, S) ==
    IF S = {} THEN 0
    ELSE LET x == CHOOSE y \in S : TRUE IN f[x] + SumOver(f, S \ {x})

MaxOver(f, S) == CHOOSE m \in {f[x] : x \in S} : \A x \in S : f[x] <= m

\* sorted(BOOKS_DB.values(), key=stock)[:3]: the sort is stable, so books of
\* equal stock keep the catalog's order.
Before(a, b) == stock[a] < stock[b] \/ (stock[a] = stock[b] /\ a < b)

Popular ==
    [i \in 1..3 |->
        CHOOSE b \in BookIds : Cardinality({a \in BookIds : Before(a, b)}) = i - 1]

get_stats_start(r) ==
    /\ At(r, "get_stats", "call")
    /\ StartSpan(r, "get_stats", NoAttrs)
    /\ Goto(r, "gs_inventory")
    /\ SpanStep

calculate_inventory_stats_start(r) ==
    /\ At(r, "get_stats", "gs_inventory")
    /\ StartSpan(r, "calculate_inventory_stats", NoAttrs)
    /\ Goto(r, "gs_inventory_sum")
    /\ SpanStep

calculate_inventory_stats_sum(r) ==
    /\ At(r, "get_stats", "gs_inventory_sum")
    /\ SetLoc(r, [loc[r] EXCEPT !.total_stock = SumOver(stock, BookIds)])
    /\ Goto(r, "gs_inventory_end")
    /\ UNCHANGED <<spans, ctx, exporterVars>>
    /\ LocalStep

calculate_inventory_stats_end(r) ==
    /\ At(r, "get_stats", "gs_inventory_end")
    /\ EndSpan(r, Cur(r))
    /\ Goto(r, "gs_value")
    /\ SpanStep

calculate_value_stats_start(r) ==
    /\ At(r, "get_stats", "gs_value")
    /\ StartSpan(r, "calculate_value_stats", NoAttrs)
    /\ Goto(r, "gs_value_end")
    /\ SpanStep

calculate_value_stats_end(r) ==
    /\ At(r, "get_stats", "gs_value_end")
    /\ EndSpan(r, Cur(r))
    /\ Goto(r, "gs_popular")
    /\ SpanStep

find_popular_books_start(r) ==
    /\ At(r, "get_stats", "gs_popular")
    /\ StartSpan(r, "find_popular_books", NoAttrs)
    /\ Goto(r, "gs_popular_sort")
    /\ SpanStep

find_popular_books_sort(r) ==
    /\ At(r, "get_stats", "gs_popular_sort")
    /\ SetLoc(r, [loc[r] EXCEPT !.popular = Popular])
    /\ Goto(r, "gs_popular_end")
    /\ UNCHANGED <<spans, ctx, exporterVars>>
    /\ LocalStep

find_popular_books_end(r) ==
    /\ At(r, "get_stats", "gs_popular_end")
    /\ EndSpan(r, Cur(r))
    /\ Goto(r, "gs_return")
    /\ SpanStep

\* avg_price and max_price depend on the prices only, which never change; the
\* average is kept in whole cents.
get_stats_return(r) ==
    /\ At(r, "get_stats", "gs_return")
    /\ EndSpan(r, WithAttr(Cur(r), "stats.total_books", Cardinality(BookIds)))
    /\ Return(r, [total_books |-> Cardinality(BookIds),
                  total_stock |-> loc[r].total_stock,
                  avg_price |-> SumOver(Price, BookIds) \div Cardinality(BookIds),
                  max_price |-> MaxOver(Price, BookIds),
                  popular_books |-> loc[r].popular])

----------------------------------------------------------------------------
(* e-commerce: root, do_work *)

\* The e-commerce root endpoint opens no span of its own.
ecommerce_root(r) ==
    /\ At(r, "ecommerce_root", "call")
    /\ Return(r, "ok")
    /\ UNCHANGED <<spans, ctx, exporterVars>>

ChildName(i) == CASE i = 0 -> "work.child.0" [] i = 1 -> "work.child.1"
                  [] i = 2 -> "work.child.2"

do_work_start(r) ==
    /\ At(r, "do_work", "call")
    /\ StartSpan(r, "work.parent",
          SetAttr(SetAttr(NoAttrs, "work.type", "demo"),
                  "tenant.id", "example-tenant"))
    /\ Goto(r, "dw_loop")
    /\ SpanStep

do_work_child_start(r) ==
    /\ At(r, "do_work", "dw_loop")
    /\ loc[r].i < 3
    /\ \E delay \in DelayInputs :
          StartSpan(r, ChildName(loc[r].i),
             SetAttr(SetAttr(NoAttrs, "iteration", loc[r].i),
                     "delay.seconds", delay))
    /\ Goto(r, "dw_child_end")
    /\ SpanStep

do_work_child_end(r) ==
    /\ At(r, "do_work", "dw_child_end")
    /\ EndSpan(r, Cur(r))
    /\ SetLoc(r, [loc[r] EXCEPT !.i = @ + 1])
    /\ Goto(r, "dw_loop")
    /\ LocalStep

\* The simulated failure raised without the try/except around it: it leaves
\* the block and fails the request.
do_work_fault_uncaught(r) ==
    /\ At(r, "do_work", "dw_loop")
    /\ loc[r].i = 3
    /\ \E fault \in BOOLEAN :
          IF fault
          THEN /\ SetLoc(r, [loc[r] EXCEPT !.exc = 500,
                                           !.exc_detail = "simulated failure"])
               /\ Goto(r, "exc_record")
          ELSE /\ Goto(r, "dw_end")
               /\ UNCHANGED loc
    /\ UNCHANGED <<spans, ctx, exporterVars>>
    /\ LocalStep

\* random.random() < 0.3: the simulated failure is raised and caught at once,
\* or the block is simply left.
do_work_fault(r) ==
    /\ At(r, "do_work", "dw_loop")
    /\ loc[r].i = 3
    /\ \E fault \in BOOLEAN :
          IF fault
          THEN /\ SetLoc(r, [loc[r] EXCEPT !.exc_detail = "simulated failure"])
               /\ Goto(r, "dw_record")
          ELSE /\ Goto(r, "dw_end")
               /\ UNCHANGED loc
    /\ UNCHANGED <<spans, ctx, exporterVars>>
    /\ LocalStep

\* parent.record_exception(e)
do_work_record_exception(r) ==
    /\ At(r, "do_work", "dw_record")
    /\ UpdateSpan(r, [Cur(r) EXCEPT !.detail = loc[r].exc_detail])
    /\ Goto(r, "dw_status")
    /\ SpanStep

\* parent.set_status(trace.Status(trace.StatusCode.ERROR))
do_work_set_status(r) ==
    /\ At(r, "do_work", "dw_status")
    /\ UpdateSpan(r, [Cur(r) EXCEPT !.status = "ERROR"])
    /\ Goto(r, "dw_end")
    /\ SpanStep

do_work_return(r) ==
    /\ At(r, "do_work", "dw_end")
    /\ EndSpan(r, Cur(r))
    /\ Return(r, "done")

----------------------------------------------------------------------------
(* The batch exporter's background worker *)

\* The flush timer fires or the buffer has reached its threshold: the whole
\* pending buffer becomes the batch to transmit.
Flush ==
    /\ inflight = 0
    /\ pending > 0
    /\ inflight' = pending
    /\ pending' = 0
    /\ retries' = 0
    /\ UNCHANGED <<ITEMS, lists, service, pc, req, loc, ctx, spans, response, stock, now,
                   dropped, exported, failures>>

\* The collector accepts the batch.
ExportOk ==
    /\ inflight > 0
    /\ exported' = exported + inflight
    /\ inflight' = 0
    /\ retries' = 0
    /\ UNCHANGED <<ITEMS, lists, service, pc, req, loc, ctx, spans, response, stock, now,
                   pending, dropped, failures>>

\* A transmission fails and is retried after a backoff.
ExportRetry ==
    /\ inflight > 0
    /\ retries < RetryBudget
    /\ retries' = retries + 1
    /\ UNCHANGED <<ITEMS, lists, service, pc, req, loc, ctx, spans, response, stock, now,
                   pending, inflight, dropped, exported, failures>>

\* A discard that counts one drop per batch instead of one per span.
ExportDiscard_one ==
    /\ inflight > 0
    /\ retries = RetryBudget
    /\ dropped' = dropped + 1
    /\ inflight' = 0
    /\ retries' = 0
    /\ failures' = failures + 1
    /\ UNCHANGED <<ITEMS, lists, service, pc, req, loc, ctx, spans, response, stock, now,
                   pending, exported>>

\* The last retry fails too: the batch is discarded and counted as dropped,
\* and the failure is logged.
ExportDiscard ==
    /\ inflight > 0
    /\ retries = RetryBudget
    /\ dropped' = dropped + inflight
    /\ inflight' = 0
    /\ retries' = 0
    /\ failures' = failures + 1
    /\ UNCHANGED <<ITEMS, lists, service, pc, req, loc, ctx, spans, response, stock, now,
                   pending, exported>>

----------------------------------------------------------------------------
(* Time *)

Tick ==
    /\ now < MaxTime
    /\ now' = now + 1
    /\ UNCHANGED <<ITEMS, lists, service, pc, req, loc, ctx, spans, response, stock,
                   exporterVars>>

----------------------------------------------------------------------------
(* simple-full-stack backend: an in-memory list of items, no tracing *)

\* Requests are served by threads that share the module's globals. ITEMS is
\* a name bound to a list object: append changes the object in place, while
\* delete_item builds a new list and binds the name to it. List object 0 is
\* the one of line 28; the one built by request r is object r.

ItemsService == "simple-full-stack"

TitleInputs == {"a", "b"}

\* uuid4 ids are modelled as fresh: the item made by request r has id r; id 0
\* is an id that no item has.
ItemIdInputs == {0} \cup Reqs

NoItem == [id |-> 0, title |-> ""]

NoItemReq == [handler |-> "none", title |-> "", item_id |-> 0]

NoItemLoc == [item |-> NoItem, ref |-> 0, i |-> 0, acc |-> <<>>]

ItemRequestInputs ==
    {[NoItemReq EXCEPT !.handler = h] : h \in {"health", "list_items"}}
    \cup {[NoItemReq EXCEPT !.handler = "create_item", !.title = t] :
             t \in TitleInputs}
    \cup {[NoItemReq EXCEPT !.handler = "delete_item", !.item_id = i] :
             i \in ItemIdInputs}

InitItems ==
    /\ service = ItemsService
    /\ pc = [r \in Reqs |-> "idle"]
    /\ req = [r \in Reqs |-> NoItemReq]
    /\ loc = [r \in Reqs |-> NoItemLoc]
    /\ ctx = [r \in Reqs |-> <<>>]
    /\ spans = [r \in Reqs |-> <<>>]
    /\ response = [r \in Reqs |-> NoResponse]
    /\ stock = InitialStock
    /\ now = 0
    /\ pending = 0
    /\ inflight = 0
    /\ retries = 0
    /\ dropped = 0
    /\ exported = 0
    /\ failures = 0
    /\ ITEMS = 0
    /\ lists = [o \in {0} \cup Reqs |-> <<>>]

\* What no handler of this backend touches.
ItemsFrame == UNCHANGED <<service, req, ctx, spans, stock, now, exporterVars>>

ItemsReturn(r, body) ==
    /\ response' = [response EXCEPT ![r] = [status |-> 200, body |-> body]]
    /\ Goto(r, "done")

sfs_route(r) ==
    /\ service = ItemsService
    /\ pc[r] = "idle"
    /\ \E q \in ItemRequestInputs : req' = [req EXCEPT ![r] = q]
    /\ Goto(r, "call")
    /\ UNCHANGED <<service, ctx, spans, stock, now, exporterVars>>
    /\ UNCHANGED <<loc, response, ITEMS, lists>>

sfs_health(r) ==
    /\ At(r, "health", "call")
    /\ ItemsReturn(r, [status |-> "ok"])
    /\ UNCHANGED <<loc, ITEMS, lists>>
    /\ ItemsFrame

\* The answer holds the items of the list ITEMS is bound to.
list_items(r) ==
    /\ At(r, "list_items", "call")
    /\ ItemsReturn(r, lists[ITEMS])
    /\ UNCHANGED <<loc, ITEMS, lists>>
    /\ ItemsFrame

create_item_new(r) ==
    /\ At(r, "create_item", "call")
    /\ SetLoc(r, [loc[r] EXCEPT !.item = [id |-> r, title |-> req[r].title]])
    /\ Goto(r, "ci_load")
    /\ UNCHANGED <<response, ITEMS, lists>>
    /\ ItemsFrame

\* ITEMS.append(item) first reads the global, then calls append on the list
\* object it read.
create_item_load(r) ==
    /\ At(r, "create_item", "ci_load")
    /\ SetLoc(r, [loc[r] EXCEPT !.ref = ITEMS])
    /\ Goto(r, "ci_append")
    /\ UNCHANGED <<response, ITEMS, lists>>
    /\ ItemsFrame

create_item_append(r) ==
    /\ At(r, "create_item", "ci_append")
    /\ lists' = [lists EXCEPT ![loc[r].ref] = Append(@, loc[r].item)]
    /\ Goto(r, "ci_return")
    /\ UNCHANGED <<loc, response, ITEMS>>
    /\ ItemsFrame

create_item_return(r) ==
    /\ At(r, "create_item", "ci_return")
    /\ ItemsReturn(r, loc[r].item)
    /\ UNCHANGED <<loc, ITEMS, lists>>
    /\ ItemsFrame

\* The comprehension reads the global once and iterates over that object.
delete_item_load(r) ==
    /\ At(r, "delete_item", "call")
    /\ SetLoc(r, [loc[r] EXCEPT !.ref = ITEMS, !.i = 1, !.acc = <<>>])
    /\ Goto(r, "di_next")
    /\ UNCHANGED <<response, ITEMS, lists>>
    /\ ItemsFrame

\* One step of the list iterator: it compares its index with the current
\* length of the list, so it sees items appended while it runs, and stops
\* for good once the index is past the end.
delete_item_next(r) ==
    /\ At(r, "delete_item", "di_next")
    /\ LET l == lists[loc[r].ref]
           i == loc[r].i
       IN  IF i <= Len(l)
           THEN /\ SetLoc(r, [loc[r] EXCEPT
                        !.i = i + 1,
                        !.acc = IF l[i].id # req[r].item_id
                                THEN Append(@, l[i]) ELSE @])
                /\ UNCHANGED pc
           ELSE /\ Goto(r, "di_store")
                /\ UNCHANGED loc
    /\ UNCHANGED <<response, ITEMS, lists>>
    /\ ItemsFrame

\* The new list is bound to the global name.
delete_item_store(r) ==
    /\ At(r, "delete_item", "di_store")
    /\ lists' = [lists EXCEPT ![r] = loc[r].acc]
    /\ ITEMS' = r
    /\ Goto(r, "di_return")
    /\ UNCHANGED <<loc, response>>
    /\ ItemsFrame

delete_item_return(r) ==
    /\ At(r, "delete_item", "di_return")
    /\ ItemsReturn(r, [deleted |-> req[r].item_id])
    /\ UNCHANGED <<loc, ITEMS, lists>>
    /\ ItemsFrame

----------------------------------------------------------------------------
(* Specifications *)

Step(r) ==
    \/ Arrive(r) \/ Respond(r)
    \/ ExcRecord(r) \/ ExcStatus(r) \/ ExcEnd(r)
    \/ root_start(r) \/ root_return(r)
    \/ health_start(r) \/ health_return(r)
    \/ list_books_start(r) \/ list_books_cache_start(r)
    \/ list_books_cache_check(r) \/ list_books_cache_end(r)
    \/ list_books_db_start(r) \/ list_books_db_query(r) \/ list_books_db_end(r)
    \/ list_books_serialize_start(r) \/ list_books_serialize_end(r)
    \/ list_books_return(r)
    \/ get_book_start(r) \/ get_book_cache_start(r) \/ get_book_cache_check(r)
    \/ get_book_cache_end(r) \/ get_book_db_start(r) \/ get_book_db_lookup(r)
    \/ get_book_db_end(r) \/ get_book_return(r)
    \/ create_order_start(r) \/ validate_book_start(r) \/ validate_book_check(r)
    \/ validate_book_end(r) \/ check_inventory_start(r)
    \/ check_inventory_attrs(r) \/ check_inventory_check(r)
    \/ check_inventory_end(r) \/ calculate_total_start(r)
    \/ calculate_total_end(r) \/ process_payment_start(r)
    \/ process_payment_end(r) \/ update_inventory_start(r)
    \/ update_inventory_load(r) \/ update_inventory_store(r)
    \/ update_inventory_attr(r) \/ update_inventory_end(r)
    \/ send_confirmation_email_start(r) \/ send_confirmation_email_end(r)
    \/ create_order_order_id(r) \/ create_order_return(r)
    \/ get_stats_start(r) \/ calculate_inventory_stats_start(r)
    \/ calculate_inventory_stats_sum(r) \/ calculate_inventory_stats_end(r)
    \/ calculate_value_stats_start(r) \/ calculate_value_stats_end(r)
    \/ find_popular_books_start(r) \/ find_popular_books_sort(r)
    \/ find_popular_books_end(r) \/ get_stats_return(r)
    \/ ecommerce_root(r)
    \/ do_work_start(r) \/ do_work_child_start(r) \/ do_work_child_end(r)
    \/ do_work_fault(r) \/ do_work_record_exception(r) \/ do_work_set_status(r)
    \/ do_work_return(r)

\* Requests handled concurrently.
Next == \E r \in Reqs : Step(r)

Spec == Init /\ [][Next]_vars

\* One request under a running clock.
NextRequest == Step(1) \/ Tick

SpecRequest == Init /\ [][NextRequest]_vars

\* One request beside the exporter's worker.
NextExport == Step(1) \/ Flush \/ ExportOk \/ ExportRetry \/ ExportDiscard

SpecExport == Init /\ [][NextExport]_vars

\* The simple-full-stack backend serving NumReqs concurrent requests.
ItemsStepOf(r) ==
    \/ sfs_route(r)
    \/ sfs_health(r)
    \/ list_items(r)
    \/ create_item_new(r) \/ create_item_load(r)
    \/ create_item_append(r) \/ create_item_return(r)
    \/ delete_item_load(r) \/ delete_item_next(r)
    \/ delete_item_store(r) \/ delete_item_return(r)

NextItems == \E r \in Reqs : ItemsStepOf(r)

SpecItems == InitItems /\ [][NextItems]_vars

----------------------------------------------------------------------------
(* Properties *)

ReqSpans(r) == {<<r, i>> : i \in 1..Len(spans[r])}

\* The spans the handler itself opens: all but the server span.
HandlerSpans(r) == {id \in ReqSpans(r) : SpanOf(id).name # "server"}

Named(r, name) == {id \in ReqSpans(r) : SpanOf(id).name = name}

HasAttr(rec, k, v) == k \in DOMAIN rec.attrs /\ rec.attrs[k] = v

\* The handler has returned or has been left by an exception.
Finished(r) == pc[r] \in {"respond", "done"}

\* The failure details that contain "not found".
NotFoundDetails == {"Book not found"}

\* C1: every span a handler opens is ended exactly once on every exit path:
\* no span is ended twice, and once the handler has returned or raised, none
\* of its spans is still open.
C1_EndedExactlyOnce ==
    \A r \in Reqs : \A id \in ReqSpans(r) :
        /\ SpanOf(id).ended <= 1
        /\ (Finished(r) /\ id \in HandlerSpans(r)) => SpanOf(id).ended = 1
        /\ pc[r] = "done" => SpanOf(id).ended = 1

\* C1 witness: a create_order left early by the HTTPException raised inside
\* check_inventory has been answered 400 with all of its spans ended.
C1_Witness ==
    \E r \in Reqs :
        /\ Finished(r)
        /\ req[r].handler = "create_order"
        /\ response[r].status = 400
        /\ Named(r, "check_inventory") # {}

\* C2: the spans of one request share one trace_id and form one tree with
\* exactly one span without parent; every other span's parent is an earlier
\* span of the same request, open as long as the child is, and no trace_id is
\* shared by two requests.
C2_OneTreePerRequest ==
    \A r \in Reqs :
        /\ ReqSpans(r) # {} =>
              Cardinality({id \in ReqSpans(r) : SpanOf(id).parent = NoSpan}) = 1
        /\ \A id \in ReqSpans(r) :
              /\ SpanOf(id).trace = SpanOf(<<r, 1>>).trace
              /\ \A o \in Reqs \ {r} : \A oid \in ReqSpans(o) :
                    SpanOf(oid).trace # SpanOf(id).trace
              /\ SpanOf(id).parent # NoSpan =>
                    /\ SpanOf(id).parent \in ReqSpans(r)
                    /\ SpanOf(id).parent[2] < id[2]
                    /\ SpanOf(id).ended = 0 => SpanOf(SpanOf(id).parent).ended = 0

\* Two requests are inside their handlers' blocks at the same time, each with
\* a child span open.
C2_Witness ==
    \E r1, r2 \in Reqs :
        /\ r1 # r2
        /\ Len(ctx[r1]) >= 3
        /\ Len(ctx[r2]) >= 3

\* create_order for a book that is not in the catalog, after the handler has
\* been left.
OrderOfMissingBook(r) ==
    /\ req[r].handler = "create_order"
    /\ req[r].book_id \notin BookIds
    /\ Finished(r)

\* C3 as stated: the span tree of such a request has exactly 2 spans,
\* create_order (the root) and validate_book; validate_book is ERROR with a
\* detail containing "not found"; the root is ERROR too.
C3_AsStated ==
    \A r \in Reqs : OrderOfMissingBook(r) =>
        /\ Len(spans[r]) = 2
        /\ \E c \in Named(r, "create_order"), v \in Named(r, "validate_book") :
              /\ SpanOf(c).parent = NoSpan
              /\ SpanOf(c).status = "ERROR"
              /\ SpanOf(v).status = "ERROR"
              /\ SpanOf(v).detail \in NotFoundDetails

\* C3, amended: the handler opens exactly 2 spans, create_order and its child
\* validate_book; validate_book ends ERROR with a detail containing "not
\* found" and create_order ends ERROR too; create_order is the child of the
\* request's server span, which is the root of the tree and is not ERROR.
C3_MissingBookTrace ==
    \A r \in Reqs : OrderOfMissingBook(r) =>
        /\ Cardinality(HandlerSpans(r)) = 2
        /\ \E c \in Named(r, "create_order"), v \in Named(r, "validate_book") :
              /\ SpanOf(v).parent = c
              /\ SpanOf(v).ended = 1
              /\ SpanOf(v).status = "ERROR"
              /\ SpanOf(v).detail \in NotFoundDetails
              /\ SpanOf(c).ended = 1
              /\ SpanOf(c).status = "ERROR"
              /\ SpanOf(c).parent \in Named(r, "server")
              /\ SpanOf(SpanOf(c).parent).parent = NoSpan
              /\ SpanOf(SpanOf(c).parent).status # "ERROR"
        /\ response[r].status = 404

C3_Witness ==
    \E r \in Reqs : OrderOfMissingBook(r) /\ req[r].book_id = 999 /\ pc[r] = "done"

\* get_book for book 2 with a cache miss, after the response has left.
GetBookTwoServed(r) ==
    /\ req[r].handler = "get_book"
    /\ req[r].book_id = 2
    /\ ~loc[r].cache_hit
    /\ pc[r] = "done"

\* C4 as stated: the request's spans are exactly get_book, cache_lookup and
\* database_query, with one trace_id; database_query has book_id = 2 and the
\* root get_book as parent; the root ends with status OK.
C4_AsStated ==
    \A r \in Reqs : GetBookTwoServed(r) =>
        /\ Len(spans[r]) = 3
        /\ \A id \in ReqSpans(r) : SpanOf(id).trace = SpanOf(<<r, 1>>).trace
        /\ \E g \in Named(r, "get_book"), d \in Named(r, "database_query") :
              /\ Named(r, "cache_lookup") # {}
              /\ HasAttr(SpanOf(d), "book_id", 2)
              /\ SpanOf(d).parent = g
              /\ SpanOf(g).parent = NoSpan
              /\ SpanOf(g).status = "OK"

\* C4, amended: the handler opens exactly 3 spans, get_book, cache_lookup and
\* database_query, which share the trace_id of the request's server span;
\* database_query has book_id = 2 and get_book as parent; get_book, the child
\* of the server span, ends with status UNSET, no status being set on a
\* normal exit.
C4_GetBookTrace ==
    \A r \in Reqs : GetBookTwoServed(r) =>
        /\ Cardinality(HandlerSpans(r)) = 3
        /\ \A id \in ReqSpans(r) :
              /\ SpanOf(id).trace = SpanOf(<<r, 1>>).trace
              /\ SpanOf(id).ended = 1
        /\ \E g \in Named(r, "get_book"), c \in Named(r, "cache_lookup"),
              d \in Named(r, "database_query") :
              /\ HasAttr(SpanOf(d), "book_id", 2)
              /\ SpanOf(d).parent = g
              /\ SpanOf(c).parent = g
              /\ SpanOf(g).parent \in Named(r, "server")
              /\ SpanOf(g).status = "UNSET"
        /\ response[r].status = 200

C4_Witness == \E r \in Reqs : GetBookTwoServed(r)

\* do_work has injected its fault.
FaultInjected(r) == req[r].handler = "do_work" /\ loc[r].exc_detail # ""

\* C5: an injected fault marks work.parent ERROR and records the failure on
\* it, and never aborts the request: with or without the fault, once do_work
\* is left the three work.child.i spans and work.parent have been started and
\* ended, and the answer is the normal result "done".
C5_FaultNeverAborts ==
    \A r \in Reqs : (req[r].handler = "do_work" /\ Finished(r)) =>
        /\ response[r] = [status |-> 200, body |-> "done"]
        /\ \A i \in 0..2 : \E ch \in Named(r, ChildName(i)) :
              /\ SpanOf(ch).ended = 1
              /\ SpanOf(ch).parent \in Named(r, "work.parent")
        /\ \E p \in Named(r, "work.parent") :
              /\ SpanOf(p).ended = 1
              /\ FaultInjected(r) =>
                    SpanOf(p).status = "ERROR" /\ SpanOf(p).detail = "simulated failure"
              /\ ~FaultInjected(r) =>
                    SpanOf(p).status = "UNSET" /\ SpanOf(p).detail = ""

C5_Witness ==
    \E r \in Reqs : FaultInjected(r) /\ pc[r] = "done"

\* C6 as stated: in every state, a span carries a failure detail only when its
\* status is ERROR.
C6_AsStated ==
    \A r \in Reqs : \A id \in ReqSpans(r) :
        SpanOf(id).detail # "" => SpanOf(id).status = "ERROR"

\* C6, amended: a span carries a failure detail while its status is not ERROR
\* only as long as it is open and its request stands between recording the
\* failure and setting the status; every ended span with a failure detail has
\* status ERROR.
C6_DetailOnlyWithError ==
    \A r \in Reqs : \A id \in ReqSpans(r) :
        (SpanOf(id).detail # "" /\ SpanOf(id).status # "ERROR") =>
            /\ SpanOf(id).ended = 0
            /\ pc[r] \in {"exc_status", "dw_status"}
            /\ id = ctx[r][Len(ctx[r])]

\* An ended span with a failure detail, in do_work and in the bookshop.
C6_Witness ==
    \E r \in Reqs : \E id \in ReqSpans(r) :
        /\ SpanOf(id).detail # ""
        /\ SpanOf(id).ended = 1
        /\ SpanOf(id).name \in {"work.parent", "check_inventory"}

\* C7: every span ends no earlier than it starts; a span with a parent starts
\* no earlier than the parent and, once the parent is ended, is ended too and
\* no later than the parent.
C7_ChildWithinParent ==
    \A r \in Reqs : \A id \in ReqSpans(r) :
        LET s == SpanOf(id)
        IN  /\ s.ended >= 1 => s.end >= s.start
            /\ s.parent # NoSpan =>
                  LET p == SpanOf(s.parent)
                  IN  /\ p.start <= s.start
                      /\ p.ended >= 1 => (s.ended >= 1 /\ s.end <= p.end)

\* A child strictly inside its ended parent, in a handler left by an exception.
C7_Witness ==
    \E r \in Reqs : \E id \in HandlerSpans(r) :
        /\ loc[r].exc # 0
        /\ SpanOf(id).parent # NoSpan
        /\ SpanOf(SpanOf(id).parent).ended = 1
        /\ SpanOf(SpanOf(id).parent).start < SpanOf(id).start
        /\ SpanOf(id).end < SpanOf(SpanOf(id).parent).end

\* The status the request's inputs alone call for.
ExpectedStatus(q) ==
    IF q.handler \in {"get_book", "create_order"} /\ q.book_id \notin BookIds
    THEN 404
    ELSE IF q.handler = "create_order" /\ InitialStock[q.book_id] < q.quantity
         THEN 400
         ELSE 200

EndedSpans ==
    Cardinality({id \in UNION {ReqSpans(r) : r \in Reqs} : SpanOf(id).ended >= 1})

\* C8: a batch leaves the exporter undelivered only when the retry budget is
\* used up; the drop counter then grows by the size of the batch and no
\* request is touched.  Every ended span is pending, in flight, delivered or
\* counted as dropped, and a request is answered with the status its inputs
\* call for, whatever became of its spans.
C8_ExportFailureIsLocal ==
    /\ [](/\ exported + dropped + pending + inflight = EndedSpans
          /\ retries <= RetryBudget
          /\ \A r \in Reqs : Finished(r) => response[r].status = ExpectedStatus(req[r]))
    /\ [][(inflight > 0 /\ inflight' = 0 /\ exported' = exported) =>
            /\ retries = RetryBudget
            /\ dropped' = dropped + inflight
            /\ failures' = failures + 1
            /\ pending' = pending
            /\ pc' = pc
            /\ response' = response]_vars

\* All spans of an answered request, two or more, were discarded in a single
\* batch; none was delivered and the buffer never overflowed.
C8_Witness ==
    /\ pc[1] = "done"
    /\ response[1].status = 200
    /\ Len(spans[1]) >= 2
    /\ Len(spans[1]) < MaxQueue
    /\ exported = 0
    /\ failures = 1
    /\ dropped = Len(spans[1])

AttrsOf(r) == [i \in 1..Len(spans[r]) |-> spans[r][i].attrs]

\* C9 as stated: list_books and get_book record the result of the cache lookup
\* as a span attribute.  Then two requests with the same inputs, one with a
\* hit and one with a miss, differ in the attributes of their spans.
C9_AsStated ==
    \A r1, r2 \in Reqs :
        (/\ req[r1].handler \in {"list_books", "get_book"}
         /\ req[r1] = req[r2]
         /\ pc[r1] = "done" /\ pc[r2] = "done"
         /\ loc[r1].cache_hit /\ ~loc[r2].cache_hit)
        => AttrsOf(r1) # AttrsOf(r2)

\* C10 as stated: the stock of every book is >= 0 in every reachable state.
C10_AsStated == \A b \in BookIds : stock[b] >= 0

\* The spans of the part of create_order that follows the two checks.
AfterChecks == {"process_payment", "update_inventory", "send_confirmation_email"}

\* The order fails with a business error: the book is not in the catalog, or
\* its stock is less than the requested quantity.
BusinessError(q) ==
    /\ q.handler = "create_order"
    /\ ExpectedStatus(q) \in {404, 400}

\* The catalog after the order q has been taken from it.
StockLess(q) ==
    [InitialStock EXCEPT ![q.book_id] = @ - q.quantity]

\* Request r has left validate_book and check_inventory without an error.
PassedBothChecks(r) ==
    /\ req[r].handler = "create_order"
    /\ \A n \in {"validate_book", "check_inventory"} :
          \E id \in Named(r, n) :
              /\ SpanOf(id).ended = 1
              /\ SpanOf(id).status # "ERROR"
              /\ ~HasAttr(SpanOf(id), "error", TRUE)

\* C11: a create_order request that fails with a business error (book not
\* found, or stock less than the requested quantity) leaves the stock of every
\* book unchanged and opens no process_payment, update_inventory or
\* send_confirmation_email span, and is answered 404 or 400; requests of the
\* other handlers leave the stock unchanged too. The stock changes only in
\* the update_inventory step of a request that has passed validate_book and
\* check_inventory, and that step takes exactly the ordered quantity from the
\* ordered book and nothing from any other.
C11_FailedOrderChangesNothing ==
    /\ [](\A r \in Reqs :
            /\ BusinessError(req[r]) =>
                  /\ stock = InitialStock
                  /\ \A n \in AfterChecks : Named(r, n) = {}
                  /\ Finished(r) => response[r].status = ExpectedStatus(req[r])
            /\ (pc[r] # "idle" /\ req[r].handler # "create_order") =>
                  stock = InitialStock
            /\ (req[r].handler = "create_order" /\ ~BusinessError(req[r])) =>
                  /\ stock \in {InitialStock, StockLess(req[r])}
                  /\ Finished(r) => stock = StockLess(req[r]))
    /\ [][stock' # stock =>
            \E r \in Reqs :
                /\ PassedBothChecks(r)
                /\ Named(r, "update_inventory") # {}
                /\ pc[r] # pc'[r]
                /\ stock' = [stock EXCEPT ![req[r].book_id] =
                                              @ - req[r].quantity]]_vars

\* C11 witness: an order of more copies than the stock holds has been
\* answered 400 after check_inventory marked its span, with the catalog as
\* it was and none of the later spans opened.
C11_Witness ==
    \E r \in Reqs :
        /\ pc[r] = "done"
        /\ req[r].handler = "create_order"
        /\ req[r].book_id \in BookIds
        /\ InitialStock[req[r].book_id] < req[r].quantity
        /\ response[r].status = 400
        /\ \E id \in Named(r, "check_inventory") :
              HasAttr(SpanOf(id), "error", TRUE)
        /\ stock = InitialStock

\* The ids of the items of the list ITEMS is bound to.
IdsInItems == {lists[ITEMS][k].id : k \in 1..Len(lists[ITEMS])}

\* A delete_item for the id has been received.
DeleteRequested(id) ==
    \E d \in Reqs : req[d].handler = "delete_item" /\ req[d].item_id = id

\* C12 as stated: for any interleaving of concurrent create_item and
\* delete_item requests, an item whose create_item has returned is in ITEMS,
\* which is what list_items answers, as long as no delete_item for its own
\* id has been executed; a delete_item for another id does not remove it.
C12_AsStated ==
    \A r \in Reqs :
        (/\ req[r].handler = "create_item"
         /\ pc[r] = "done"
         /\ ~DeleteRequested(response[r].body.id))
        => response[r].body.id \in IdsInItems

====
